---- MODULE Spec2Model ----
(***************************************************************************)
(* A model of the code-emission engine of hfaulds/tracer (package gen):    *)
(* the import resolver (buildImportMap), the type resolution procedure     *)
(* (resolveParam), the signature rule (generateMethodSig) and the builder  *)
(* primitives (NewBuilder, WriteStruct, WriteMethod, WriteLine, Write,     *)
(* WriteTo).                                                               *)
(*                                                                         *)
(* Text is modelled as Go models it: a string is a sequence of bytes.      *)
(* Every string of the program is a sequence of one-character strings, so  *)
(* that formatting (%s, %d), joining, sorting and line structure are       *)
(* computed, not assumed.                                                  *)
(***************************************************************************)
EXTENDS Integers, Sequences, FiniteSets, TLC

(***************************************************************************)
(* Bytes and strings.                                                      *)
(***************************************************************************)

\* The printable ASCII characters in code order: Ascii[i] has code 31 + i. The
\* grave accent (code 96) cannot be written in a string of this language and
\* no text of the model contains it; "(96)" holds its place.
Ascii == <<
    " ", "!", "\"", "#", "$", "%", "&", "'", "(", ")", "*", "+", ",", "-", ".", "/",
    "0", "1", "2", "3", "4", "5", "6", "7", "8", "9", ":", ";", "<", "=", ">", "?",
    "@", "A", "B", "C", "D", "E", "F", "G", "H", "I", "J", "K", "L", "M", "N", "O",
    "P", "Q", "R", "S", "T", "U", "V", "W", "X", "Y", "Z", "[", "\\", "]", "^", "_",
    "(96)", "a", "b", "c", "d", "e", "f", "g", "h", "i", "j", "k", "l", "m", "n", "o",
    "p", "q", "r", "s", "t", "u", "v", "w", "x", "y", "z", "{", "|", "}", "~" >>

\* The byte value of a character ("\n" is 10); Go compares strings bytewise.
Ord(c) == IF c = "\n" THEN 10 ELSE 31 + (CHOOSE i \in 1..Len(Ascii) : Ascii[i] = c)

Min(a, b) == IF a < b THEN a ELSE b

\* Go's < on strings: lexicographic on bytes, a proper prefix is smaller.
StrLess(a, b) ==
    \E k \in 0..Min(Len(a), Len(b)) :
        /\ \A i \in 1..k : a[i] = b[i]
        /\ \/ k = Len(a) /\ k < Len(b)
           \/ /\ k < Len(a)
              /\ k < Len(b)
              /\ Ord(a[k + 1]) < Ord(b[k + 1])

Digits == <<"0", "1", "2", "3", "4", "5", "6", "7", "8", "9">>

\* The verb %d of package fmt on an int: its decimal digits.
RECURSIVE Itoa(_)
Itoa(n) ==
    IF n < 0 THEN <<"-">> \o Itoa(0 - n)
    ELSE IF n < 10 THEN <<Digits[n + 1]>>
    ELSE Itoa(n \div 10) \o <<Digits[(n % 10) + 1]>>

\* fmt.Sprintf(format, a...) for the verbs the package uses: %s takes the next
\* argument as a string, %d takes it as an int; a verb without an argument
\* prints as fmt prints it, %!v(MISSING).
RECURSIVE Sprintf(_, _)
Sprintf(format, a) ==
    IF format = <<>> THEN <<>>
    ELSE IF Head(format) = "%" /\ Len(format) >= 2 /\ format[2] \in {"s", "d"}
    THEN IF a = <<>>
         THEN <<"%","!">> \o <<format[2]>> \o <<"(","M","I","S","S","I","N","G",")">> \o Sprintf(Tail(Tail(format)), a)
         ELSE (IF format[2] = "s" THEN Head(a) ELSE Itoa(Head(a)))
                  \o Sprintf(Tail(Tail(format)), Tail(a))
    ELSE <<Head(format)>> \o Sprintf(Tail(format), a)

\* strings.Join(elems, sep)
RECURSIVE Join(_, _)
Join(elems, sep) ==
    IF elems = <<>> THEN <<>>
    ELSE IF Len(elems) = 1 THEN Head(elems)
    ELSE Head(elems) \o sep \o Join(Tail(elems), sep)

\* sort.Strings on the strings collected from a map: Go's iteration order over
\* a map is unspecified, so the collected slice is any arrangement of the set
\* S, and sorting it yields the one ascending arrangement (the strings are
\* pairwise distinct, as the keys of the map are).
RECURSIVE SortStrings(_)
SortStrings(S) ==
    IF S = {} THEN <<>>
    ELSE LET least == CHOOSE s \in S : \A t \in S \ {s} : StrLess(s, t)
         IN  <<least>> \o SortStrings(S \ {least})

(***************************************************************************)
(* The type model (package parse/types, as package gen uses it).           *)
(***************************************************************************)

BasicParam(typ) == [kind |-> "BasicParam", Typ |-> typ]
NamedParam(pkg, typ) == [kind |-> "NamedParam", Pkg |-> pkg, Typ |-> typ]
ArrayParam(typ, length) == [kind |-> "ArrayParam", Typ |-> typ, Length |-> length]
SliceParam(typ) == [kind |-> "SliceParam", Typ |-> typ]
PointerParam(typ) == [kind |-> "PointerParam", Typ |-> typ]
MapParam(key, elem) == [kind |-> "MapParam", Key |-> key, Elem |-> elem]
InterfaceParam(methods) == [kind |-> "InterfaceParam", Methods |-> methods]
\* A Param of a variant the switch statements of package gen do not name.
OtherParam == [kind |-> "OtherParam"]

Method(name, params, returns) == [Name |-> name, Params |-> params, Returns |-> returns]
Interface(name, methods) == [Name |-> name, Methods |-> methods]
Attr(name, typ) == [Name |-> name, Type |-> typ]
Struct(name, attrs) == [Name |-> name, Attrs |-> attrs]
Package(name, pkgPath, interfaces, structs) ==
    [Name |-> name, PkgPath |-> pkgPath, Interfaces |-> interfaces, Structs |-> structs]

(***************************************************************************)
(* The import resolver.                                                    *)
(***************************************************************************)

RECURSIVE resolvePackages(_), resolveParamsPackages(_), resolveMethodPackages(_)

\* resolvePackages, had it descended into a map's element type before its key type.
resolvePackages_ElemFirst(p) ==
    CASE p.kind = "NamedParam" -> IF p.Pkg = <<>> THEN <<>> ELSE <<p.Pkg>>
      [] p.kind = "ArrayParam" -> resolvePackages(p.Typ)
      [] p.kind = "SliceParam" -> resolvePackages(p.Typ)
      [] p.kind = "PointerParam" -> resolvePackages(p.Typ)
      [] p.kind = "MapParam" -> resolvePackages(p.Elem) \o resolvePackages(p.Key)
      [] p.kind = "InterfaceParam" -> resolveMethodPackages(p.Methods)
      [] OTHER -> <<>>

\* The package paths a type parameter refers to, in encounter order.
resolvePackages(p) ==
    CASE p.kind = "NamedParam" -> IF p.Pkg = <<>> THEN <<>> ELSE <<p.Pkg>>
      [] p.kind = "ArrayParam" -> resolvePackages(p.Typ)
      [] p.kind = "SliceParam" -> resolvePackages(p.Typ)
      [] p.kind = "PointerParam" -> resolvePackages(p.Typ)
      [] p.kind = "MapParam" -> resolvePackages(p.Key) \o resolvePackages(p.Elem)
      [] p.kind = "InterfaceParam" -> resolveMethodPackages(p.Methods)
      [] OTHER -> <<>>

\* One of the two inner loops of resolveMethodPackages: over m.Params or m.Returns.
resolveParamsPackages(ps) ==
    IF ps = <<>> THEN <<>>
    ELSE resolvePackages(Head(ps)) \o resolveParamsPackages(Tail(ps))

resolveMethodPackages(methods) ==
    IF methods = <<>> THEN <<>>
    ELSE resolveParamsPackages(Head(methods).Params)
             \o resolveParamsPackages(Head(methods).Returns)
             \o resolveMethodPackages(Tail(methods))

\* The body of the inner loop of buildImportMap, run over the paths ps.
RECURSIVE addPackages(_, _, _)
\* addPackages, had it not asked whether the path already has an alias.
addPackages_NoSeenCheck(importMap, ps, pkgPath) ==
    IF ps = <<>> THEN importMap
    ELSE LET p == Head(ps)
         IN  IF p = pkgPath THEN addPackages(importMap, Tail(ps), pkgPath)
             ELSE addPackages(
                      (p :> Sprintf(<<"i","%","d">>, <<Cardinality(DOMAIN importMap)>>)) @@ importMap,
                      Tail(ps), pkgPath)

\* addPackages, had it not skipped the path of the package generated for.
addPackages_NoSelfSkip(importMap, ps, pkgPath) ==
    IF ps = <<>> THEN importMap
    ELSE LET p == Head(ps)
         IN  IF p \in DOMAIN importMap THEN addPackages(importMap, Tail(ps), pkgPath)
             ELSE addPackages(
                      importMap @@ (p :> Sprintf(<<"i","%","d">>, <<Cardinality(DOMAIN importMap)>>)),
                      Tail(ps), pkgPath)

addPackages(importMap, ps, pkgPath) ==
    IF ps = <<>> THEN importMap
    ELSE LET p == Head(ps)
         IN  IF p = pkgPath THEN addPackages(importMap, Tail(ps), pkgPath)
             ELSE IF p \in DOMAIN importMap THEN addPackages(importMap, Tail(ps), pkgPath)
             ELSE addPackages(
                      importMap @@ (p :> Sprintf(<<"i","%","d">>, <<Cardinality(DOMAIN importMap)>>)),
                      Tail(ps), pkgPath)

\* The outer loop of buildImportMap, over pkg.Interfaces.
RECURSIVE addInterfaces(_, _, _)
addInterfaces(importMap, interfaces, pkgPath) ==
    IF interfaces = <<>> THEN importMap
    ELSE addInterfaces(
             addPackages(importMap, resolveMethodPackages(Head(interfaces).Methods), pkgPath),
             Tail(interfaces), pkgPath)

\* The empty map of Go: map[string]string{}.
EmptyMap == [p \in {} |-> <<>>]

buildImportMap(pkg) == addInterfaces(EmptyMap, pkg.Interfaces, pkg.PkgPath)

(***************************************************************************)
(* Type resolution and the signature rule.                                 *)
(***************************************************************************)

\* The first loop of generateMethodSig, from index i (0-based) on.
RECURSIVE sigParams(_, _)
sigParams(params, i) ==
    IF i >= Len(params) THEN <<>>
    ELSE Sprintf(<<"p","%","d"," ","%","s">>, <<i, params[i + 1]>>)
             \o (IF i < Len(params) - 1 THEN <<","," ">> ELSE <<>>)
             \o sigParams(params, i + 1)

\* The second loop of generateMethodSig, from index i (0-based) on.
RECURSIVE sigReturns(_, _)
sigReturns(returns, i) ==
    IF i >= Len(returns) THEN <<>>
    ELSE (IF i > 0 THEN <<","," ">> ELSE <<>>) \o returns[i + 1] \o sigReturns(returns, i + 1)

\* generateMethodSig, had it parenthesized every non-empty return list.
generateMethodSig_ParenthesizeOne(implementor, methodName, params, returns) ==
    (IF implementor # <<>> THEN Sprintf(<<"(","t"," ","%","s",")"," ">>, <<implementor>>) ELSE <<>>)
        \o Sprintf(<<"%","s","(">>, <<methodName>>)
        \o sigParams(params, 0)
        \o <<")">>
        \o (IF Len(returns) > 0 THEN <<" ">> ELSE <<>>)
        \o (IF Len(returns) > 0 THEN <<"(">> ELSE <<>>)
        \o sigReturns(returns, 0)
        \o (IF Len(returns) > 0 THEN <<")">> ELSE <<>>)

\* What generateMethodSig writes to its writer.
generateMethodSig(implementor, methodName, params, returns) ==
    (IF implementor # <<>> THEN Sprintf(<<"(","t"," ","%","s",")"," ">>, <<implementor>>) ELSE <<>>)
        \o Sprintf(<<"%","s","(">>, <<methodName>>)
        \o sigParams(params, 0)
        \o <<")">>
        \o (IF Len(returns) > 0 THEN <<" ">> ELSE <<>>)
        \o (IF Len(returns) > 1 THEN <<"(">> ELSE <<>>)
        \o sigReturns(returns, 0)
        \o (IF Len(returns) > 1 THEN <<")">> ELSE <<>>)

RECURSIVE resolveParam(_, _), resolveParams(_, _), resolveInterfaceMethods(_, _)

\* resolveParam, had it written a map's element type where its key type belongs.
resolveParam_ElemAsKey(importMap, p) ==
    CASE p.kind = "BasicParam" -> p.Typ
      [] p.kind = "NamedParam" ->
             IF p.Pkg # <<>>
             THEN IF p.Pkg \in DOMAIN importMap
                  THEN Sprintf(<<"%","s",".","%","s">>, <<importMap[p.Pkg], p.Typ>>)
                  ELSE p.Typ
             ELSE p.Typ
      [] p.kind = "ArrayParam" ->
             Sprintf(<<"[","%","d","]","%","s">>, <<p.Length, resolveParam(importMap, p.Typ)>>)
      [] p.kind = "SliceParam" -> Sprintf(<<"[","]","%","s">>, <<resolveParam(importMap, p.Typ)>>)
      [] p.kind = "PointerParam" -> Sprintf(<<"*","%","s">>, <<resolveParam(importMap, p.Typ)>>)
      [] p.kind = "MapParam" ->
             Sprintf(<<"m","a","p","[","%","s","]","%","s">>,
                     <<resolveParam(importMap, p.Elem), resolveParam(importMap, p.Key)>>)
      [] p.kind = "InterfaceParam" ->
             IF Len(p.Methods) = 0 THEN <<"i","n","t","e","r","f","a","c","e","{","}">>
             ELSE IF Len(p.Methods) = 1
             THEN <<"i","n","t","e","r","f","a","c","e","{"," ">>
                      \o generateMethodSig(<<>>, p.Methods[1].Name,
                                           resolveParams(importMap, p.Methods[1].Params),
                                           resolveParams(importMap, p.Methods[1].Returns))
                      \o <<" ","}">>
             ELSE <<"i","n","t","e","r","f","a","c","e"," ","{">> \o resolveInterfaceMethods(importMap, p.Methods) \o <<"\n","}",",","\n">>
      [] OTHER -> <<"<","u","n","s","u","p","p","o","r","t","e","d",">">>

\* builder.resolveParam: the text of a type parameter under the import map.
resolveParam(importMap, p) ==
    CASE p.kind = "BasicParam" -> p.Typ
      [] p.kind = "NamedParam" ->
             IF p.Pkg # <<>>
             THEN IF p.Pkg \in DOMAIN importMap
                  THEN Sprintf(<<"%","s",".","%","s">>, <<importMap[p.Pkg], p.Typ>>)
                  ELSE p.Typ
             ELSE p.Typ
      [] p.kind = "ArrayParam" ->
             Sprintf(<<"[","%","d","]","%","s">>, <<p.Length, resolveParam(importMap, p.Typ)>>)
      [] p.kind = "SliceParam" -> Sprintf(<<"[","]","%","s">>, <<resolveParam(importMap, p.Typ)>>)
      [] p.kind = "PointerParam" -> Sprintf(<<"*","%","s">>, <<resolveParam(importMap, p.Typ)>>)
      [] p.kind = "MapParam" ->
             Sprintf(<<"m","a","p","[","%","s","]","%","s">>,
                     <<resolveParam(importMap, p.Key), resolveParam(importMap, p.Elem)>>)
      [] p.kind = "InterfaceParam" ->
             IF Len(p.Methods) = 0 THEN <<"i","n","t","e","r","f","a","c","e","{","}">>
             ELSE IF Len(p.Methods) = 1
             THEN <<"i","n","t","e","r","f","a","c","e","{"," ">>
                      \o generateMethodSig(<<>>, p.Methods[1].Name,
                                           resolveParams(importMap, p.Methods[1].Params),
                                           resolveParams(importMap, p.Methods[1].Returns))
                      \o <<" ","}">>
             ELSE <<"i","n","t","e","r","f","a","c","e"," ","{">> \o resolveInterfaceMethods(importMap, p.Methods) \o <<"\n","}",",","\n">>
      [] OTHER -> <<"<","u","n","s","u","p","p","o","r","t","e","d",">">>

\* builder.resolveParams
resolveParams(importMap, params) ==
    IF params = <<>> THEN <<>>
    ELSE <<resolveParam(importMap, Head(params))>> \o resolveParams(importMap, Tail(params))

\* The loop over tp.Methods of the multi-method interface case of resolveParam.
resolveInterfaceMethods(importMap, methods) ==
    IF methods = <<>> THEN <<>>
    ELSE <<"\n">>
             \o generateMethodSig(<<>>, Head(methods).Name,
                                  resolveParams(importMap, Head(methods).Params),
                                  resolveParams(importMap, Head(methods).Returns))
             \o resolveInterfaceMethods(importMap, Tail(methods))

(***************************************************************************)
(* The builder.                                                            *)
(***************************************************************************)

\* builder.Write: fmt.Fprintf(b.buf, str, a...)
Write(buf, str, a) == buf \o Sprintf(str, a)

\* builder.WriteLine
WriteLine(buf, str, a) == Write(buf, str \o <<"\n">>, a)

\* writeImports, had it ordered the statements by package path.
writeImports_ByPath(buf, importMap) ==
    LET paths == SortStrings(DOMAIN importMap)
        imports == [i \in 1..Len(paths) |->
                       Sprintf(<<"i","m","p","o","r","t"," ","%","s"," ","\"","%","s","\"">>, <<importMap[paths[i]], paths[i]>>)]
        joined == Write(buf, Join(imports, <<"\n">>), <<>>)
    IN  IF Len(imports) > 0 THEN WriteLine(joined, <<>>, <<>>) ELSE joined

\* builder.writeImports
writeImports(buf, importMap) ==
    LET imports == SortStrings({Sprintf(<<"i","m","p","o","r","t"," ","%","s"," ","\"","%","s","\"">>, <<importMap[imp], imp>>) :
                                    imp \in DOMAIN importMap})
        joined == Write(buf, Join(imports, <<"\n">>), <<>>)
    IN  IF Len(imports) > 0 THEN WriteLine(joined, <<>>, <<>>) ELSE joined

\* NewBuilder: the builder it returns, as its import map and the contents of its buffer.
NewBuilder(p) ==
    LET m == buildImportMap(p)
        marker == WriteLine(<<>>, <<"/","/"," ","C","o","d","e"," ","g","e","n","e","r","a","t","e","d"," ","b","y"," ","t","r","a","c","e","r"," ","v","0",".","0",".","1","."," ","D","O"," ","N","O","T"," ","E","D","I","T",".">>, <<>>)
        clause == WriteLine(marker, <<"p","a","c","k","a","g","e"," ","%","s">>, <<p.Name>>)
    IN  [buf |-> writeImports(clause, m), importMap |-> m]

\* The loop over strct.Attrs of WriteStruct.
RECURSIVE writeAttrs(_, _, _)
writeAttrs(buf, importMap, attrs) ==
    IF attrs = <<>> THEN buf
    ELSE writeAttrs(
             WriteLine(buf, <<"%","s"," ","%","s">>, <<Head(attrs).Name, resolveParam(importMap, Head(attrs).Type)>>),
             importMap, Tail(attrs))

\* builder.WriteStruct: the buffer after the call.
WriteStruct(buf, importMap, strct) ==
    WriteLine(
        writeAttrs(WriteLine(buf, <<"\n","t","y","p","e"," ","%","s"," ","s","t","r","u","c","t"," ","{">>, <<strct.Name>>), importMap, strct.Attrs),
        <<"}">>, <<>>)

\* A callback handed to WriteMethod is a function of the builder; it is modelled
\* by the calls it makes on it, a sequence of [fn, str, a] with fn one of
\* "Write" and "WriteLine". runCallback is the buffer after those calls.
RECURSIVE runCallback(_, _)
runCallback(buf, callback) ==
    IF callback = <<>> THEN buf
    ELSE runCallback(
             IF Head(callback).fn = "WriteLine"
             THEN WriteLine(buf, Head(callback).str, Head(callback).a)
             ELSE Write(buf, Head(callback).str, Head(callback).a),
             Tail(callback))

\* WriteMethod, had it closed the declaration before it ran the callback.
WriteMethod_CallbackLast(buf, importMap, strct, method, callback) ==
    LET func == Write(buf, <<"\n","f","u","n","c"," ">>, <<>>)
        recv == IF strct # <<>> THEN Write(func, <<"(","t"," ","%","s",")"," ">>, <<strct[1].Name>>) ELSE func
        sig == recv \o generateMethodSig(<<>>, method.Name,
                                         resolveParams(importMap, method.Params),
                                         resolveParams(importMap, method.Returns))
        open == WriteLine(sig, <<" ","{">>, <<>>)
    IN  runCallback(WriteLine(open, <<"}">>, <<>>), callback)

\* builder.WriteMethod: the buffer after the call. strct is a *types.Struct:
\* <<>> models nil and <<s>> a pointer to the struct s.
WriteMethod(buf, importMap, strct, method, callback) ==
    LET func == Write(buf, <<"\n","f","u","n","c"," ">>, <<>>)
        recv == IF strct # <<>> THEN Write(func, <<"(","t"," ","%","s",")"," ">>, <<strct[1].Name>>) ELSE func
        sig == recv \o generateMethodSig(<<>>, method.Name,
                                         resolveParams(importMap, method.Params),
                                         resolveParams(importMap, method.Returns))
        open == WriteLine(sig, <<" ","{">>, <<>>)
        body == runCallback(open, callback)
    IN  WriteLine(body, <<"}">>, <<>>)

(***************************************************************************)
(* Bounds and inputs.                                                      *)
(***************************************************************************)

\* Nesting depth of the type parameters handed to resolveParam.
MaxDepth == 2
\* Methods of an anonymous interface type.
MaxMethods == 2
\* Type parameters in the interfaces of a package handed to buildImportMap.
MaxItems == 2
\* Parameters, and returns, of a signature handed to generateMethodSig.
MaxArity == 2
\* Calls made on a builder between NewBuilder and WriteTo.
MaxWrites == 2

\* The sequences over S of length at most n.
SeqsUpTo(S, n) == UNION {[1..k -> S] : k \in 0..n}

\* The elements of a finite set of integers in ascending order.
RECURSIVE Ascending(_)
Ascending(S) ==
    IF S = {} THEN <<>>
    ELSE LET least == CHOOSE x \in S : \A y \in S : x <= y
         IN  <<least>> \o Ascending(S \ {least})

\* The path of the package generated for, and the names it may bear.
SelfPath == <<"a","p","p">>
PkgNames == {<<"m","a","i","n">>, <<"i","0">>}

IntT == BasicParam(<<"i","n","t">>)
StringT == BasicParam(<<"s","t","r","i","n","g">>)
ErrorT == BasicParam(<<"e","r","r","o","r">>)
LocalT == NamedParam(<<>>, <<"T">>)
SelfT == NamedParam(SelfPath, <<"T">>)
ForeignT == NamedParam(<<"p">>, <<"T">>)
Context == NamedParam(<<"c","o","n","t","e","x","t">>, <<"C","o","n","t","e","x","t">>)
Buffer == NamedParam(<<"b","y","t","e","s">>, <<"B","u","f","f","e","r">>)

\* An anonymous interface of n methods M1..Mn that all mention the type t, in
\* one of three shapes: as the parameter, as the return, or among two
\* parameters and two returns.
InterfaceOver(t, n, shape) ==
    InterfaceParam([i \in 1..n |->
        Method(Sprintf(<<"M","%","d">>, <<i>>),
               CASE shape = "param" -> <<t>>
                 [] shape = "return" -> <<>>
                 [] OTHER -> <<IntT, t>>,
               CASE shape = "param" -> <<>>
                 [] shape = "return" -> <<t>>
                 [] OTHER -> <<t, ErrorT>>)])

\* The type parameters of nesting depth at most d.
RECURSIVE Types(_)
Types(d) ==
    IF d = 0
    THEN {IntT, LocalT, SelfT, ForeignT, Context, OtherParam, InterfaceParam(<<>>)}
    ELSE LET prev == Types(d - 1)
         IN  prev
             \cup {ArrayParam(t, 10) : t \in prev}
             \cup {SliceParam(t) : t \in prev}
             \cup {PointerParam(t) : t \in prev}
             \cup {MapParam(t, IntT) : t \in prev}
             \cup {MapParam(ForeignT, t) : t \in prev}
             \cup {InterfaceOver(t, n, shape) :
                       t \in prev, n \in 1..MaxMethods, shape \in {"param", "return", "both"}}

\* The packages NewBuilder is given when the import map is what is examined.
\* The interfaces are laid out by a sequence of items: each places one type
\* parameter as a parameter or as a return of the current method, or of a new
\* method, or of the first method of a new interface.
ItemTypes ==
    { Context, Buffer, SelfT, MapParam(Buffer, Context),
      InterfaceParam(<<Method(<<"F","o","o">>, <<SliceParam(PointerParam(ForeignT)), LocalT>>,
                               <<ArrayParam(Context, 10)>>)>>) }
Items == [typ : ItemTypes, role : {"param", "return"}, brk : {"same", "method", "interface"}]

\* The indices of items at which a method, or an interface, starts.
MethodStarts(items) == {i \in 1..Len(items) : i = 1 \/ items[i].brk # "same"}
InterfaceStarts(items) == {i \in 1..Len(items) : i = 1 \/ items[i].brk = "interface"}
\* The index after the last item of the method, or interface, that starts at s.
EndOf(starts, s, n) ==
    IF \E e \in starts : e > s THEN CHOOSE e \in starts : e > s /\ \A f \in starts : f > s => e <= f
    ELSE n + 1

TypesWithRole(items, from, to, role) ==
    LET idx == Ascending({i \in from..(to - 1) : items[i].role = role})
    IN  [k \in 1..Len(idx) |-> items[idx[k]].typ]

MethodAt(items, s) ==
    LET e == EndOf(MethodStarts(items), s, Len(items))
    IN  Method(Sprintf(<<"M","%","d">>, <<s>>),
               TypesWithRole(items, s, e, "param"), TypesWithRole(items, s, e, "return"))

InterfaceAt(items, s) ==
    LET e == EndOf(InterfaceStarts(items), s, Len(items))
        ms == Ascending({i \in MethodStarts(items) : s <= i /\ i < e})
    IN  Interface(Sprintf(<<"I","%","d">>, <<s>>), [k \in 1..Len(ms) |-> MethodAt(items, ms[k])])

InterfacesOf(items) ==
    LET is == Ascending(InterfaceStarts(items))
    IN  [k \in 1..Len(is) |-> InterfaceAt(items, is[k])]

\* A struct whose attribute is of a package no interface need mention.
BufferedStruct == Struct(<<"c","l","i","e","n","t">>, <<Attr(<<"s","c","r","a","t","c","h">>, PointerParam(Buffer))>>)

ImportPackages ==
    { Package(name, SelfPath, InterfacesOf(items), <<BufferedStruct>>) :
          name \in PkgNames, items \in SeqsUpTo(Items, MaxItems) }

\* The packages the builder is exercised on: the interface Client of the
\* specification's scenario, or a two-method interface, with a struct whose
\* attributes are local, of a package the interface mentions, or of one it
\* does not.
ClientInterface ==
    Interface(<<"C","l","i","e","n","t">>, <<Method(<<"G","e","t">>, <<Context, StringT>>, <<IntT, ErrorT>>)>>)
StoreInterface ==
    Interface(<<"S","t","o","r","e">>,
              <<Method(<<"P","u","t">>, <<SliceParam(PointerParam(ForeignT))>>, <<>>),
                Method(<<"L","e","n">>, <<>>, <<IntT>>)>>)
BuilderStructs ==
    { Struct(<<"c","l","i","e","n","t">>, <<Attr(<<"i","n","n","e","r">>, LocalT)>>),
      Struct(<<"c","l","i","e","n","t">>, <<Attr(<<"i","n","n","e","r">>, LocalT), Attr(<<"c","t","x">>, Context)>>),
      BufferedStruct }
BuilderPackages ==
    { Package(<<"m","a","i","n">>, SelfPath, <<iface>>, <<strct>>) :
          iface \in {ClientInterface, StoreInterface}, strct \in BuilderStructs }

\* The calls made on the builder by the callers of this model: callbacks of
\* WriteMethod, and direct calls of WriteLine and Write.
Call(fn, str, a) == [fn |-> fn, str |-> str, a |-> a]
Callbacks ==
    { <<>>,
      <<Call("WriteLine", <<"r","e","t","u","r","n">>, <<>>)>>,
      <<Call("Write", <<"d","e","f","e","r"," ","%","s","(",")">>, <<<<"d","o","n","e">>>>), Call("WriteLine", <<>>, <<>>)>> }
LineCalls == {Call("WriteLine", <<"/","/"," ","%","s">>, <<<<"w","r","a","p","p","e","r">>>>), Call("WriteLine", <<"v","a","r"," ","_"," ","%","s">>, <<<<"i","n","t">>>>)}
RawCalls == {Call("Write", <<"/","/"," ","%","s">>, <<<<"t","i","m","i","n","g">>>>), Call("Write", <<"\n">>, <<>>)}

\* The packages resolveParam and generateMethodSig are exercised under: with no
\* import, with one, and with two and a reference to the package itself.
ResolvePackages ==
    { Package(<<"m","a","i","n">>, SelfPath, <<>>, <<>>),
      Package(<<"m","a","i","n">>, SelfPath,
              <<Interface(<<"C","l","i","e","n","t">>, <<Method(<<"G","e","t">>, <<ForeignT>>, <<SelfT>>)>>)>>, <<>>),
      Package(<<"m","a","i","n">>, SelfPath,
              <<Interface(<<"C","l","i","e","n","t">>, <<Method(<<"G","e","t">>, <<SelfT, Context>>, <<ForeignT>>)>>)>>, <<>>) }
SigNames == {<<"G","e","t">>, <<"F","o","o">>}
SigTypes == {<<"i","n","t">>, <<"i","0",".","C","o","n","t","e","x","t">>}

(***************************************************************************)
(* The state of one generation run.                                        *)
(***************************************************************************)

VARIABLES
    pkg,        \* the Package generated for
    built,      \* whether NewBuilder has returned the builder
    importMap,  \* b.importMap
    buf,        \* the contents of b.buf
    dst,        \* what WriteTo has written to its io.Writer
    ret,        \* the error WriteTo returned: "none" before the call, then "nil" or "error"
    last,       \* the latest call: its name, arguments, result, and the builder before it
    writes      \* the calls made on the builder since NewBuilder

vars == <<pkg, built, importMap, buf, dst, ret, last, writes>>

Called(op, args, res) ==
    [op |-> op, args |-> args, res |-> res, before |-> [buf |-> buf, importMap |-> importMap]]

NoCall == [op |-> "none", args |-> <<>>, res |-> <<>>,
           before |-> [buf |-> <<>>, importMap |-> EmptyMap]]

\* Before NewBuilder, for a package p.
Unbuilt(p) ==
    /\ pkg = p
    /\ built = FALSE
    /\ importMap = EmptyMap
    /\ buf = <<>>
    /\ dst = <<>>
    /\ ret = "none"
    /\ last = NoCall
    /\ writes = 0

Init == \E p \in BuilderPackages : Unbuilt(p)

NewBuilderCall ==
    /\ ~built
    /\ built' = TRUE
    /\ buf' = NewBuilder(pkg).buf
    /\ importMap' = NewBuilder(pkg).importMap
    /\ last' = Called("NewBuilder", <<pkg>>, <<>>)
    /\ UNCHANGED <<pkg, dst, ret, writes>>

\* The generators write until the driver finalizes, at most MaxWrites times.
CanWrite == built /\ ret = "none" /\ writes < MaxWrites

Wrote(op, args, after) ==
    /\ buf' = after
    /\ last' = Called(op, args, <<>>)
    /\ writes' = writes + 1
    /\ UNCHANGED <<pkg, built, importMap, dst, ret>>

WriteStructCall ==
    /\ CanWrite
    /\ \E i \in 1..Len(pkg.Structs) :
           Wrote("WriteStruct", <<pkg.Structs[i]>>, WriteStruct(buf, importMap, pkg.Structs[i]))

WriteMethodCall ==
    /\ CanWrite
    /\ \E strct \in {<<>>} \cup {<<pkg.Structs[i]>> : i \in 1..Len(pkg.Structs)},
          i \in 1..Len(pkg.Interfaces), callback \in Callbacks :
           \E j \in 1..Len(pkg.Interfaces[i].Methods) :
               LET method == pkg.Interfaces[i].Methods[j]
               IN  Wrote("WriteMethod", <<strct, method, callback>>,
                         WriteMethod(buf, importMap, strct, method, callback))

WriteLineCall ==
    /\ CanWrite
    /\ \E c \in LineCalls : Wrote("WriteLine", <<c.str, c.a>>, WriteLine(buf, c.str, c.a))

WriteCall ==
    /\ CanWrite
    /\ \E c \in RawCalls : Wrote("Write", <<c.str, c.a>>, Write(buf, c.str, c.a))

\* builder.WriteTo. format.Source belongs to the Go standard library: whether
\* it accepts the buffer, and the text it returns, are not decided by this
\* repository. Both outcomes are possible here, and the formatted text is kept
\* as the term [formatted |-> buf]. With an error nothing is written.
WriteToCall ==
    /\ built
    /\ ret = "none"
    /\ \/ /\ ret' = "error"
          /\ dst' = dst
       \/ /\ ret' = "nil"
          /\ dst' = Append(dst, [formatted |-> buf])
    /\ last' = Called("WriteTo", <<>>, <<>>)
    /\ UNCHANGED <<pkg, built, importMap, buf, writes>>

Next ==
    \/ NewBuilderCall
    \/ WriteStructCall
    \/ WriteMethodCall
    \/ WriteLineCall
    \/ WriteCall
    \/ WriteToCall

Spec == Init /\ [][Next]_vars

\* The import resolver on its own: NewBuilder on the packages of ImportPackages.
InitImports == \E p \in ImportPackages : Unbuilt(p)

NextImports == NewBuilderCall

SpecImports == InitImports /\ [][NextImports]_vars

\* The pure procedures on their own, on a builder NewBuilder has returned.
InitResolve ==
    \E p \in ResolvePackages :
        /\ pkg = p
        /\ built = TRUE
        /\ importMap = NewBuilder(p).importMap
        /\ buf = NewBuilder(p).buf
        /\ dst = <<>>
        /\ ret = "none"
        /\ last = NoCall
        /\ writes = 0

TypeInputs == Types(MaxDepth)
SigInputs == SeqsUpTo(SigTypes, MaxArity)

\* One run applies one procedure once.
ResolveParamCall ==
    /\ last = NoCall
    /\ \E p \in TypeInputs : last' = Called("resolveParam", <<p>>, resolveParam(importMap, p))
    /\ UNCHANGED <<pkg, built, importMap, buf, dst, ret, writes>>

GenerateMethodSigCall ==
    /\ last = NoCall
    /\ \E name \in SigNames, params \in SigInputs, returns \in SigInputs :
           last' = Called("generateMethodSig", <<<<>>, name, params, returns>>,
                          generateMethodSig(<<>>, name, params, returns))
    /\ UNCHANGED <<pkg, built, importMap, buf, dst, ret, writes>>

NextResolve == ResolveParamCall \/ GenerateMethodSigCall

SpecResolve == InitResolve /\ [][NextResolve]_vars

(***************************************************************************)
(* The properties.                                                         *)
(***************************************************************************)

Range(f) == {f[x] : x \in DOMAIN f}

\* The concatenation of a sequence of sequences.
RECURSIVE Concat(_)
Concat(ss) == IF ss = <<>> THEN <<>> ELSE Head(ss) \o Concat(Tail(ss))

Injective(f) == \A x, y \in DOMAIN f : x # y => f[x] # f[y]

\* The aliases i0, i1, ... of a map of n entries.
AliasesUpTo(n) == {<<"i">> \o Itoa(k) : k \in 0..(n - 1)}

\* C1 (as stated): the import map NewBuilder keeps assigns pairwise distinct
\* aliases to distinct package paths, and no alias equals the name of the
\* package generated for.
C1_AliasesDistinctAndNotPackageName ==
    built => /\ Injective(importMap)
             /\ \A p \in DOMAIN importMap : importMap[p] # pkg.Name

\* C1 (amended): the aliases are pairwise distinct, and an alias equals the name
\* of the package generated for only when that name is itself one of the
\* aliases i0, i1, ... the resolver hands out.
C1_AliasesDistinct ==
    built => /\ Injective(importMap)
             /\ \A p \in DOMAIN importMap :
                    importMap[p] = pkg.Name =>
                        pkg.Name \in AliasesUpTo(Cardinality(DOMAIN importMap))

\* A package named i0 with two imports.
C1_Witness == built /\ Cardinality(DOMAIN importMap) = 2 /\ pkg.Name = <<"i","0">>

\* The package paths the claim's traversal meets in a type parameter: the
\* path of a Named type, the element type of Array, Slice and Pointer, the key
\* of a Map before its value, and for an Interface each method in order, its
\* parameters before its returns.
RECURSIVE PathsMet(_)
PathsMet(p) ==
    CASE p.kind = "NamedParam" -> <<p.Pkg>>
      [] p.kind \in {"ArrayParam", "SliceParam", "PointerParam"} -> PathsMet(p.Typ)
      [] p.kind = "MapParam" -> Concat(<<PathsMet(p.Key), PathsMet(p.Elem)>>)
      [] p.kind = "InterfaceParam" ->
             Concat([i \in 1..Len(p.Methods) |->
                        Concat([j \in 1..Len(p.Methods[i].Params) |->
                                   PathsMet(p.Methods[i].Params[j])])
                            \o Concat([j \in 1..Len(p.Methods[i].Returns) |->
                                          PathsMet(p.Methods[i].Returns[j])])])
      [] OTHER -> <<>>

\* The paths met in a package: its interfaces in order, each as an anonymous
\* interface of the same methods.
PathsMetInPackage(p) ==
    Concat([i \in 1..Len(p.Interfaces) |-> PathsMet(InterfaceParam(p.Interfaces[i].Methods))])

\* The non-empty paths other than the package's own, each at its first place.
FirstSeen(p) ==
    LET met == PathsMetInPackage(p)
        firsts == {i \in 1..Len(met) :
                       /\ met[i] # <<>>
                       /\ met[i] # p.PkgPath
                       /\ \A j \in 1..(i - 1) : met[j] # met[i]}
        idx == Ascending(firsts)
    IN  [k \in 1..Len(idx) |-> met[idx[k]]]

\* C2: the k-th distinct foreign package path in first-seen order (k from 0)
\* has the alias "i<k>", and nothing else has an alias.
C2_AliasesInFirstSeenOrder ==
    built => LET seen == FirstSeen(pkg)
             IN  /\ DOMAIN importMap = Range(seen)
                 /\ \A k \in 1..Len(seen) : importMap[seen[k]] = <<"i">> \o Itoa(k - 1)

\* Three imports, the first seen not being the least path.
C2_Witness ==
    /\ built
    /\ Len(FirstSeen(pkg)) = 3
    /\ importMap[<<"b","y","t","e","s">>] = <<"i","2">>

\* The package paths of the Named types resolveParam reaches from the
\* arguments of the latest WriteStruct or WriteMethod.
PathsResolved(call) ==
    IF call.op = "WriteStruct"
    THEN Range(Concat([i \in 1..Len(call.args[1].Attrs) |-> PathsMet(call.args[1].Attrs[i].Type)]))
    ELSE Range(PathsMet(InterfaceParam(<<call.args[2]>>)))

\* C3 (as stated): whenever WriteStruct or WriteMethod resolves the types of a
\* struct or method of the package, every package path it reaches that is
\* neither empty nor the package's own has an entry in the import map.
C3_ForeignTypesHaveAlias ==
    last.op \in {"WriteStruct", "WriteMethod"} =>
        \A path \in PathsResolved(last) :
            (path # <<>> /\ path # pkg.PkgPath) => path \in DOMAIN importMap

\* C4: resolveParam on a Named type returns "<alias>.<Name>" exactly when its
\* package is non-empty and a key of the import map, the bare name otherwise;
\* a type of the package generated for is resolved to its bare name.
C4_NamedResolution ==
    (last.op = "resolveParam" /\ last.args[1].kind = "NamedParam") =>
        LET tp == last.args[1]
            qualified == tp.Pkg # <<>> /\ tp.Pkg \in DOMAIN importMap
        IN  /\ qualified => last.res = importMap[tp.Pkg] \o <<".">> \o tp.Typ
            /\ ~qualified => last.res = tp.Typ
            /\ tp.Pkg = pkg.PkgPath => last.res = tp.Typ

\* A type of the package's own path resolved under a map of two imports built
\* from an interface that mentions that type.
C4_Witness ==
    /\ last.op = "resolveParam"
    /\ last.args[1] = SelfT
    /\ last.res = <<"T">>
    /\ Cardinality(DOMAIN importMap) = 2

\* The two lines NewBuilder writes first.
HeaderLines(p) ==
    <<"/","/"," ","C","o","d","e"," ","g","e","n","e","r","a","t","e","d"," ","b","y"," ","t","r","a","c","e","r"," ","v","0",".","0",".","1","."," ","D","O"," ","N","O","T"," ","E","D","I","T",".","\n">> \o <<"p","a","c","k","a","g","e"," ">> \o p.Name \o <<"\n">>

\* The import statement of the entry of path imp.
ImportStatement(m, imp) == <<"i","m","p","o","r","t"," ">> \o m[imp] \o <<" ","\"">> \o imp \o <<"\"">>

\* The arrangements of the keys of m, one import statement for each.
Arrangements(m) ==
    {order \in [1..Cardinality(DOMAIN m) -> DOMAIN m] :
         \A i, j \in DOMAIN order : i # j => order[i] # order[j]}

\* The buffer that holds the header and the statements of m in the given order.
HeaderAndImports(p, m, order) ==
    HeaderLines(p) \o Concat([i \in DOMAIN order |-> ImportStatement(m, order[i]) \o <<"\n">>])

\* C5 (as stated): after NewBuilder the buffer is the marker line, the package
\* line and one import statement per entry of the import map, in ascending
\* order of package path; nothing else, and nothing for an empty map.
C5_ImportsSortedByPath ==
    (built /\ writes = 0) =>
        \E order \in Arrangements(importMap) :
            /\ buf = HeaderAndImports(pkg, importMap, order)
            /\ \A i, j \in DOMAIN order : i < j => StrLess(order[i], order[j])

\* C5 (amended): as stated, but the import statements are in ascending order of
\* their own text, "import <alias> ...", hence of their aliases.
C5_ImportsSortedByStatement ==
    (built /\ writes = 0) =>
        \E order \in Arrangements(importMap) :
            /\ buf = HeaderAndImports(pkg, importMap, order)
            /\ \A i, j \in DOMAIN order :
                   i < j => StrLess(ImportStatement(importMap, order[i]),
                                    ImportStatement(importMap, order[j]))

\* Two imports whose first-seen order is not the order of their paths.
C5_Witness ==
    /\ built
    /\ writes = 0
    /\ DOMAIN importMap = {<<"b","y","t","e","s">>, <<"c","o","n","t","e","x","t">>}
    /\ importMap[<<"c","o","n","t","e","x","t">>] = <<"i","0">>

\* The signature of a method as the rule of the specification renders it under
\* the import map m.
SignatureOf(m, method) ==
    generateMethodSig(<<>>, method.Name, resolveParams(m, method.Params),
                      resolveParams(m, method.Returns))

\* C6 (as stated): an Interface type of no method renders as "interface{}", of
\* one method as "interface{ <sig> }" on one line, of more as "interface {", one
\* signature per line, and the closing "}" with nothing after it.
C6_InterfaceRendering ==
    (last.op = "resolveParam" /\ last.args[1].kind = "InterfaceParam") =>
        LET ms == last.args[1].Methods
        IN  last.res =
                CASE Len(ms) = 0 -> <<"i","n","t","e","r","f","a","c","e","{","}">>
                  [] Len(ms) = 1 -> <<"i","n","t","e","r","f","a","c","e","{"," ">> \o SignatureOf(importMap, ms[1]) \o <<" ","}">>
                  [] OTHER -> <<"i","n","t","e","r","f","a","c","e"," ","{">>
                                  \o Concat([i \in 1..Len(ms) |->
                                                <<"\n">> \o SignatureOf(importMap, ms[i])])
                                  \o <<"\n","}">>

\* C7: generateMethodSig emits "Name(", the parameters p0, p1, ... each with
\* its type and separated by ", ", and ")"; then nothing for no return, a
\* space and the type for one, a space and the parenthesized, comma-joined
\* types for more.
C7_SignatureRule ==
    last.op = "generateMethodSig" =>
        LET name == last.args[2]
            params == last.args[3]
            returns == last.args[4]
            named == [i \in 1..Len(params) |->
                         (IF i > 1 THEN <<","," ">> ELSE <<>>)
                             \o <<"p">> \o Itoa(i - 1) \o <<" ">> \o params[i]]
            joined == [i \in 1..Len(returns) |->
                          (IF i > 1 THEN <<","," ">> ELSE <<>>) \o returns[i]]
        IN  last.res =
                name \o <<"(">> \o Concat(named) \o <<")">>
                    \o (CASE Len(returns) = 0 -> <<>>
                          [] Len(returns) = 1 -> <<" ">> \o returns[1]
                          [] OTHER -> <<" ","(">> \o Concat(joined) \o <<")">>)

\* Two parameters and two returns.
C7_Witness ==
    /\ last.op = "generateMethodSig"
    /\ last.res = <<"G","e","t","(","p","0"," ","i","0",".","C","o","n","t","e","x","t",","," ","p","1"," ","i","n","t",")"," ","(","i","n","t",","," ","i","0",".","C","o","n","t","e","x","t",")">>

\* C8: WriteMethod appends to the buffer, leaving what was there: the keyword
\* func (opening a new line), the receiver "(t <Struct>) " exactly when a
\* struct is given, the signature with resolved types, " {", what the one run
\* of the callback writes, and "}"; for Get of the interface Client the
\* signature is "Get(p0 i0.Context, p1 string) (int, error)".
C8_WriteMethodAppends ==
    last.op = "WriteMethod" =>
        LET strct == last.args[1]
            method == last.args[2]
            callback == last.args[3]
            sig == SignatureOf(last.before.importMap, method)
        IN  /\ buf = last.before.buf
                       \o <<"\n","f","u","n","c"," ">>
                       \o (IF strct # <<>> THEN <<"(","t"," ">> \o strct[1].Name \o <<")"," ">> ELSE <<>>)
                       \o sig
                       \o <<" ","{","\n">>
                       \o runCallback(<<>>, callback)
                       \o <<"}","\n">>
            /\ importMap = last.before.importMap
            /\ method = ClientInterface.Methods[1] =>
                   sig = <<"G","e","t","(","p","0"," ","i","0",".","C","o","n","t","e","x","t",","," ","p","1"," ","s","t","r","i","n","g",")"," ","(","i","n","t",","," ","e","r","r","o","r",")">>

\* Get of Client written with a receiver and a callback that writes, after an
\* earlier write.
C8_Witness ==
    /\ last.op = "WriteMethod"
    /\ last.args[1] # <<>>
    /\ last.args[2] = ClientInterface.Methods[1]
    /\ last.args[3] # <<>>
    /\ Len(last.before.buf) > Len(NewBuilder(pkg).buf)

\* The text the claim gives a type parameter: the composite variants and
\* Basic by the claim's rules at every depth, the other variants as
\* resolveParam renders them.
RECURSIVE Rendered(_, _)
Rendered(m, p) ==
    CASE p.kind = "BasicParam" -> p.Typ
      [] p.kind = "ArrayParam" -> <<"[">> \o Itoa(p.Length) \o <<"]">> \o Rendered(m, p.Typ)
      [] p.kind = "SliceParam" -> <<"[","]">> \o Rendered(m, p.Typ)
      [] p.kind = "PointerParam" -> <<"*">> \o Rendered(m, p.Typ)
      [] p.kind = "MapParam" -> <<"m","a","p","[">> \o Rendered(m, p.Key) \o <<"]">> \o Rendered(m, p.Elem)
      [] OTHER -> resolveParam(m, p)

\* C9: resolveParam renders Array, Slice, Pointer, Map and Basic by structural
\* recursion at every depth, Slice{Pointer{Named{p, T}}} under {p: i0} as
\* "[]*i0.T", and changes neither the import map nor the buffer.
C9_StructuralResolution ==
    last.op = "resolveParam" =>
        /\ last.res = Rendered(importMap, last.args[1])
        /\ (last.args[1] = SliceParam(PointerParam(ForeignT)) /\ importMap = (<<"p">> :> <<"i","0">>))
               => last.res = <<"[","]","*","i","0",".","T">>
        /\ buf = last.before.buf
        /\ importMap = last.before.importMap

\* The scenario of the specification.
C9_Witness ==
    /\ last.op = "resolveParam"
    /\ last.args[1] = SliceParam(PointerParam(ForeignT))
    /\ importMap = (<<"p">> :> <<"i","0">>)
    /\ last.res = <<"[","]","*","i","0",".","T">>

====
